---- MODULE Spec2Model ----
(***************************************************************************)
(* Model of app/main.py of watsonx-ai-agent01: the process-wide IAM token  *)
(* cache (_token_cache, _get_iam_token), the two upstream invokers         *)
(* (_wx_chat_call, _wx_generate_call), the generate handler with its       *)
(* retry-with-default-model branch and its MLflow block, the embeddings    *)
(* handler, and the validation of GenerateRequest.                         *)
(*                                                                         *)
(* Spec runs generate on every slot of the pool; SpecAll runs both         *)
(* endpoints under every configuration, one request at a time; SpecPure    *)
(* applies the validators and the payload builders to drawn request        *)
(* bodies.                                                                 *)
(*                                                                         *)
(* FastAPI runs the synchronous handlers on a thread pool, so several      *)
(* requests are in flight at once and interleave between any two accesses  *)
(* of _token_cache.  Each request slot of Reqs runs one handler at a time  *)
(* and starts a new one when the previous response has been produced.      *)
(*                                                                         *)
(* Time is in seconds.  The identity provider and the generation service   *)
(* are the environment: every call draws its outcome from a finite set.    *)
(* The provider is taken to honour its contract on a 2xx answer (a JSON    *)
(* body with access_token), as section 6 of the specification states.      *)
(***************************************************************************)
EXTENDS Integers, Sequences, FiniteSets, TLC

\* ------------------------------------------------------------------ bounds
\* Request slots (threads of the pool) that run handlers concurrently.
Reqs == {1, 2}
\* The clock advances by a step of TickSteps up to MaxTime.
TickSteps == {30}
MaxTime == 60
\* Cap on the upstream generation calls one request may log (the code makes
\* at most two; the cap only keeps a looping variant of the code finite).
MaxCalls == 3
\* expires_in values the identity provider may answer with: one shorter
\* than the margin, one that outlives it by two ticks of the clock.
ExpiresIn == {30, 120}

\* --------------------------------------------------------------- constants
None == "None"
\* the configured default model (default of WATSONX_LLM_MODEL_ID)
LLM_MODEL_ID == "mistralai/mistral-large"
BadModel == "bad-model"
\* req.model_id after GenerateRequest.normalize_model_id
ReqModelIds == {None, LLM_MODEL_ID, BadModel}
\* safety margin of the cached token, in seconds
Margin == 60

\* Bodies of upstream error answers; the first carries the marker.
MarkerBody == "{\"errors\":[{\"code\":\"model_not_supported\"}]}"
PlainBody == "{\"errors\":[{\"code\":\"other\"}]}"
\* The error answers of the generation service that are drawn.
WxErrors == {<<400, MarkerBody>>, <<404, MarkerBody>>, <<400, PlainBody>>,
             <<500, MarkerBody>>}

\* What one upstream generation POST can end in: a 2xx answer, an answer
\* raise_for_status() turns into requests.HTTPError, or a transport failure
\* (ConnectionError, Timeout: RequestException but not HTTPError).
WxOutcomes ==
    {[kind |-> "ok", status |-> 200, text |-> "results"]}
    \cup {[kind |-> "HTTPError", status |-> e[1], text |-> e[2]] :
            e \in WxErrors}
    \cup {[kind |-> "ConnectionError", status |-> 0, text |-> ""]}

VARIABLES
    IBM_API_KEY,        \* configuration: "" or a key
    WATSONX_USE_CHAT,   \* configuration: chat or completion protocol
    PROJECT_ID,         \* configuration: "" or a project identifier
    MLFLOW_AUTO_LOG,    \* configuration: server-side MLflow logging flag
    MLFLOW_TRACKING_URI, \* configuration: "" or the URI of the tracker
    Workers,            \* the request slots the thread pool runs
    token_cache,        \* _token_cache: [token, exp]
    now,                \* time.time()
    pc,                 \* position of each request's handler
    req,                \* the request being served (normalized)
    model_id,           \* generate: model of the current attempt
    attempt,            \* generate: 1 = primary try block, 2 = fallback
    tnow,               \* _get_iam_token: local now
    newtok,             \* _get_iam_token: local token (from the exchange)
    token,              \* _wx_*_call: local token
    calls,              \* upstream generation calls of the request, in order
    exchanges,          \* credential-exchange calls of the request
    result,             \* the response of the request
    mlflow,             \* what the request did with the MLflow tracker
    p_in,               \* input of the request-to-payload functions
    p_out               \* their results

config == <<IBM_API_KEY, WATSONX_USE_CHAT, PROJECT_ID, MLFLOW_AUTO_LOG,
            MLFLOW_TRACKING_URI, Workers>>

\* state of the evaluation of the pure functions (see SpecPure)
pure == <<p_in, p_out>>

vars == <<config, token_cache, now, pc, req, model_id, attempt, tnow, newtok,
          token, calls, exchanges, result, mlflow, pure>>

NoResult == [kind |-> "none", status |-> 0, detail |-> "", raw |-> 0,
             mlflow_run_id |-> None]
NoReq == [kind |-> "none", model_id |-> None]
\* the None of a token variable (tokens are records, see AccessToken)
NoToken == [iat |-> 0, ttl |-> 0]

\* HTTPException(status_code, detail)
HTTPException(status, detail) ==
    [kind |-> "error", status |-> status, detail |-> detail, raw |-> 0,
     mlflow_run_id |-> None]

\* GenerateResponse(generated_text, raw): raw is the data of the n-th call;
\* mlflow_run_id defaults to None
GenerateResponse(n) ==
    [kind |-> "ok", status |-> 200, detail |-> "", raw |-> n,
     mlflow_run_id |-> None]

\* The request has not reached the MLflow block (line 277).
NoMlflow == [entered |-> FALSE, failed |-> None, warned |-> FALSE]

\* No request body has been handed to the pure functions yet.  A JSON
\* value is a record with its type; an Optional[int] is a sequence of at
\* most one element.
NoInput == [model_id |-> [type |-> "null", chars |-> <<>>],
            temperature |-> 0, top_k |-> <<>>]
NoOutput == [stage |-> "none"]

\* The state all specifications start from, apart from the configuration
\* and the input of the pure functions: an empty cache (line 171) and no
\* request in flight.
InitState ==
    /\ token_cache = [token |-> NoToken, exp |-> 0]
    /\ now = 0
    /\ pc = [r \in Reqs |-> "idle"]
    /\ req = [r \in Reqs |-> NoReq]
    /\ model_id = [r \in Reqs |-> None]
    /\ attempt = [r \in Reqs |-> 0]
    /\ tnow = [r \in Reqs |-> 0]
    /\ newtok = [r \in Reqs |-> NoToken]
    /\ token = [r \in Reqs |-> NoToken]
    /\ calls = [r \in Reqs |-> <<>>]
    /\ exchanges = [r \in Reqs |-> 0]
    /\ result = [r \in Reqs |-> NoResult]
    /\ mlflow = [r \in Reqs |-> NoMlflow]

\* The service started with a project id and without server-side MLflow
\* logging (the default of MLFLOW_AUTO_LOG, line 36); requests run on
\* every slot of the pool.
Init ==
    /\ IBM_API_KEY \in {"", "apikey"}
    /\ WATSONX_USE_CHAT \in BOOLEAN
    /\ PROJECT_ID = "project"
    /\ MLFLOW_AUTO_LOG = FALSE
    /\ MLFLOW_TRACKING_URI = ""
    /\ Workers = Reqs
    /\ p_in = NoInput
    /\ p_out = NoOutput
    /\ InitState

\* The clock moves on while requests are in flight.
Tick ==
    /\ \E d \in TickSteps :
        /\ now + d <= MaxTime
        /\ now' = now + d
    /\ UNCHANGED <<config, pure, mlflow, token_cache, pc, req, model_id, attempt, tnow,
                   newtok, token, calls, exchanges, result>>

\* ------------------------------------------------------- _get_iam_token
\* Variants of the cache check: the comparison turned round, and the
\* margin left out.
CacheValidFlipped(cache, t) == cache.token # NoToken /\ cache.exp < t + Margin
CacheValidNoMargin(cache, t) == cache.token # NoToken /\ cache.exp > t

\* line 178: the cached token is served only while it is truthy and
\* exp > now + 60
CacheValid(cache, t) == cache.token # NoToken /\ cache.exp > t + Margin

\* The access token of an exchange started at local time t and answered
\* with expires_in e.  The record tells exchanges apart.
AccessToken(t, e) == [iat |-> t, ttl |-> e]

\* A variant that stores the lifetime instead of the instant of expiry.
NewExpLifetime(t, expires_in) == expires_in

\* line 192: the expiry stored with a fresh token
NewExp(t, expires_in) == t + expires_in

\* A variant in which the caller catches the exception and goes on to
\* its upstream call.
IamRaiseCaught(r, exc) ==
    /\ UNCHANGED result
    /\ pc' = [pc EXCEPT ![r] = "wx_post"]
    /\ tnow' = [tnow EXCEPT ![r] = 0]
    /\ newtok' = [newtok EXCEPT ![r] = NoToken]
    /\ token' = [token EXCEPT ![r] = NoToken]

\* Leaving _get_iam_token by an exception: HTTPException is no
\* requests exception, so no handler of generate catches it.
IamRaise(r, exc) ==
    /\ result' = [result EXCEPT ![r] = exc]
    /\ pc' = [pc EXCEPT ![r] = "done"]
    /\ tnow' = [tnow EXCEPT ![r] = 0]
    /\ newtok' = [newtok EXCEPT ![r] = NoToken]
    /\ token' = [token EXCEPT ![r] = NoToken]

\* lines 175-179: the api key check, now = time.time(), the cache check
IamCheck(r) ==
    /\ pc[r] = "iam_check"
    /\ IF IBM_API_KEY = ""
       THEN /\ IamRaise(r, HTTPException(500, "Missing IBMCLOUD_API_KEY"))
            /\ UNCHANGED <<config, pure, mlflow, token_cache, now, req, model_id, attempt,
                           calls, exchanges>>
       ELSE /\ IF CacheValid(token_cache, now)
               THEN /\ pc' = [pc EXCEPT ![r] = "iam_cached"]
                    /\ UNCHANGED tnow  \* now is not read again on this path
               ELSE /\ pc' = [pc EXCEPT ![r] = "iam_post"]
                    /\ tnow' = [tnow EXCEPT ![r] = now]
            /\ UNCHANGED <<config, pure, mlflow, token_cache, now, req, model_id, attempt,
                           newtok, token, calls, exchanges, result>>

\* line 179: return _token_cache["token"] (a second read of the cache)
IamReturnCached(r) ==
    /\ pc[r] = "iam_cached"
    /\ token' = [token EXCEPT ![r] = token_cache.token]
    /\ pc' = [pc EXCEPT ![r] = "wx_post"]
    /\ UNCHANGED <<config, pure, mlflow, token_cache, now, req, model_id, attempt, tnow,
                   newtok, calls, exchanges, result>>

\* A variant whose failed exchange drops the cached entry.
IamExchangeDropsCache(r) ==
    /\ exchanges' = [exchanges EXCEPT ![r] = @ + 1]
    /\ \/ /\ \E e \in ExpiresIn :
               /\ newtok' = [newtok EXCEPT ![r] = AccessToken(tnow[r], e)]
               /\ pc' = [pc EXCEPT ![r] = "iam_store_token"]
               /\ UNCHANGED <<tnow, token, result>>
          /\ UNCHANGED token_cache
       \/ /\ IamRaise(r, HTTPException(502, "IAM token error"))
          /\ token_cache' = [token |-> NoToken, exp |-> 0]
    /\ UNCHANGED <<config, pure, mlflow, now, req, model_id, attempt, calls>>

\* lines 186-190 and 194-195: the exchange call and its answer: a 2xx
\* answer with access_token and expires_in, or a RequestException
\* (transport failure, or raise_for_status on a non-2xx answer).
IamExchange(r) ==
    /\ exchanges' = [exchanges EXCEPT ![r] = @ + 1]
    /\ \/ \E e \in ExpiresIn :
            /\ newtok' = [newtok EXCEPT ![r] = AccessToken(tnow[r], e)]
            /\ pc' = [pc EXCEPT ![r] = "iam_store_token"]
            /\ UNCHANGED <<tnow, token, result>>
       \/ IamRaise(r, HTTPException(502, "IAM token error"))
    /\ UNCHANGED <<config, pure, mlflow, token_cache, now, req, model_id, attempt, calls>>

\* A variant with a single-flight guard: no exchange is sent while another
\* request is storing the answer of its own.
IamPostSingleFlight(r) ==
    /\ pc[r] = "iam_post"
    /\ \A o \in Reqs \ {r} : pc[o] \notin {"iam_store_token", "iam_store_exp"}
    /\ IamExchange(r)

\* lines 180-186: nothing stands between the failed cache check and the
\* exchange call: no lock, no look at other requests.
IamPost(r) ==
    /\ pc[r] = "iam_post"
    /\ IamExchange(r)

\* line 191: _token_cache["token"] = token
IamStoreToken(r) ==
    /\ pc[r] = "iam_store_token"
    /\ token_cache' = [token_cache EXCEPT !.token = newtok[r]]
    /\ pc' = [pc EXCEPT ![r] = "iam_store_exp"]
    /\ UNCHANGED <<config, pure, mlflow, now, req, model_id, attempt, tnow, newtok, token,
                   calls, exchanges, result>>

\* lines 192-193: _token_cache["exp"] = now + expires_in; return token
IamStoreExp(r) ==
    /\ pc[r] = "iam_store_exp"
    /\ token_cache' = [token_cache EXCEPT
                         !.exp = NewExp(tnow[r], newtok[r].ttl)]
    /\ token' = [token EXCEPT ![r] = newtok[r]]
    /\ tnow' = [tnow EXCEPT ![r] = 0]
    /\ newtok' = [newtok EXCEPT ![r] = NoToken]
    /\ pc' = [pc EXCEPT ![r] = "wx_post"]
    /\ UNCHANGED <<config, pure, mlflow, now, req, model_id, attempt, calls, exchanges,
                   result>>

\* ------------------------------------------------------------- generate
\* lines 224-250: a request arrives; parameters and model_id are computed
\* and the invoker is entered, which first asks for a token (129, 152).
GenerateStart(r) ==
    /\ pc[r] \in {"idle", "done"}
    /\ \E m \in ReqModelIds :
        /\ req' = [req EXCEPT ![r] = [kind |-> "generate", model_id |-> m]]
        /\ model_id' = [model_id EXCEPT ![r] =
                          IF m # None THEN m ELSE LLM_MODEL_ID]
    /\ attempt' = [attempt EXCEPT ![r] = 1]
    /\ calls' = [calls EXCEPT ![r] = <<>>]
    /\ exchanges' = [exchanges EXCEPT ![r] = 0]
    /\ result' = [result EXCEPT ![r] = NoResult]
    /\ mlflow' = [mlflow EXCEPT ![r] = NoMlflow]
    /\ pc' = [pc EXCEPT ![r] = "iam_check"]
    /\ UNCHANGED <<config, pure, token_cache, now, tnow, newtok, token>>

\* A variant: the response is tested with "is not None".
ResponseIsNotNone(resp) == TRUE

\* requests.Response.__bool__ is Response.ok: False exactly for the
\* statuses raise_for_status() raises on (400..599).
ResponseBool(resp) == ~(resp.status >= 400 /\ resp.status < 600)

\* str(e) of the HTTPError raise_for_status() builds
StrHTTPError(resp) ==
    CASE resp.status = 400 -> "400 Client Error: Bad Request for url"
      [] resp.status = 404 -> "404 Client Error: Not Found for url"
      [] OTHER -> "500 Server Error: Internal Server Error for url"

\* line 256: status = e.response.status_code if e.response else 502
ErrStatus(resp) == IF ResponseBool(resp) THEN resp.status ELSE 502

\* line 257: body = e.response.text if e.response else str(e)
ErrBody(resp) == IF ResponseBool(resp) THEN resp.text ELSE StrHTTPError(resp)

\* "model_not_supported" in body
HasMarker(body) == body = MarkerBody

\* Variants of the retry condition: any HTTP error of an overridden model
\* is retried.
RetryCondAnyError(status, req_model_id, body) ==
    /\ req_model_id # None
    /\ req_model_id # LLM_MODEL_ID

\* line 260: the condition of the retry with the default model
RetryCond(status, req_model_id, body) ==
    /\ status \in {400, 404}
    /\ req_model_id # None
    /\ req_model_id # LLM_MODEL_ID
    /\ HasMarker(body)

\* isinstance(exc, requests.RequestException): HTTPError, ConnectionError
\* and Timeout all derive from it
IsRequestException(out) == out.kind \in {"HTTPError", "ConnectionError"}

\* lines 267-270: the handlers of the fallback try block, in source order;
\* the first clause that matches handles the exception.
FallbackHandler(out) ==
    IF IsRequestException(out)
    THEN HTTPException(502, "watsonx request error")
    ELSE HTTPException(ErrStatus(out), ErrBody(out))

\* A variant that retries from the fallback attempt as well (a retry loop).
ShouldRetryLoop(att, out, req_model_id) ==
    /\ out.kind = "HTTPError"
    /\ RetryCondAnyError(ErrStatus(out), req_model_id, ErrBody(out))

\* lines 255-260: the retry branch lives in the HTTPError handler of the
\* primary try block only; the handlers of the fallback try block (267-270)
\* have none.
ShouldRetry(att, out, req_model_id) ==
    /\ att = 1
    /\ out.kind = "HTTPError"
    /\ RetryCond(ErrStatus(out), req_model_id, ErrBody(out))

\* line 277: if MLFLOW_AUTO_LOG and MLFLOW_TRACKING_URI
MlflowEnabled == MLFLOW_AUTO_LOG /\ MLFLOW_TRACKING_URI # ""

\* The generation POST of the current attempt (145-147, 159-161) and what
\* generate does with its outcome (252-274): a success of the primary
\* attempt builds resp (254) and falls through to the MLflow block (277);
\* a success of the fallback attempt returns at once (266).
WxPost(r) ==
    /\ pc[r] = "wx_post"
    /\ req[r].kind = "generate"
    /\ Len(calls[r]) < MaxCalls
    /\ \E out \in WxOutcomes :
        LET n == Len(calls[r]) + 1
            retry == ShouldRetry(attempt[r], out, req[r].model_id)
        IN
        /\ calls' = [calls EXCEPT ![r] =
                       Append(@, [model_id |-> model_id[r],
                                  chat |-> WATSONX_USE_CHAT,
                                  out |-> out])]
        /\ token' = [token EXCEPT ![r] = NoToken]
        /\ IF retry
           THEN /\ attempt' = [attempt EXCEPT ![r] = 2]
                /\ model_id' = [model_id EXCEPT ![r] = LLM_MODEL_ID]
                /\ pc' = [pc EXCEPT ![r] = "iam_check"]
                /\ UNCHANGED result
           ELSE /\ pc' = [pc EXCEPT ![r] =
                            IF out.kind = "ok" /\ attempt[r] = 1 /\ MlflowEnabled
                            THEN "mlflow" ELSE "done"]
                /\ result' = [result EXCEPT ![r] =
                     CASE out.kind = "ok" -> GenerateResponse(n)
                       [] attempt[r] = 2 -> FallbackHandler(out)
                       [] out.kind = "HTTPError" ->
                            HTTPException(ErrStatus(out), ErrBody(out))
                       [] OTHER -> HTTPException(502, "watsonx request error")]
                /\ UNCHANGED <<attempt, model_id>>
    /\ UNCHANGED <<config, pure, mlflow, token_cache, now, req, tnow, newtok, exchanges>>

Next ==
    \/ Tick
    \/ \E r \in Workers :
        \/ GenerateStart(r)
        \/ IamCheck(r)
        \/ IamReturnCached(r)
        \/ IamPost(r)
        \/ IamStoreToken(r)
        \/ IamStoreExp(r)
        \/ WxPost(r)

Spec == Init /\ [][Next]_vars

\* ------------------------------------------------- generate: MLflow block
\* The operations of the block in source order, by what a failure of one
\* does: "setup" (279-282: import, set_tracking_uri, set_experiment,
\* start_run), "log" (285-315: tags, params, metrics, artifacts),
\* "system_metrics" (297-300), "dataset" (319-331), "end_run" (340-343).
\* None: every operation succeeded.
MlflowFailures == {None, "setup", "log", "system_metrics", "dataset", "end_run"}

\* lines 344-345: only an exception that leaves the inner block reaches
\* logger.warning; the handlers at 299, 330 and 342 pass in silence.
MlflowWarned(f) == f \in {"setup", "log"}

\* A variant in which a failure of the tracker leaves the handler.
MlflowResponseRaises(resp, f) ==
    IF f = None THEN [resp EXCEPT !.mlflow_run_id = "run_id"]
    ELSE HTTPException(500, "mlflow error")

\* lines 333-337 and 347: resp as returned: run.info.run_id is stored in it
\* unless an exception left the block before line 335.
MlflowResponse(resp, f) ==
    IF f \in {"setup", "log"} THEN resp
    ELSE [resp EXCEPT !.mlflow_run_id = "run_id"]

\* lines 277-347: the MlflowEnabled branch after a successful primary
\* attempt, then return resp.
MlflowLog(r) ==
    /\ pc[r] = "mlflow"
    /\ \E f \in MlflowFailures :
        /\ mlflow' = [mlflow EXCEPT ![r] =
                        [entered |-> TRUE, failed |-> f,
                         warned |-> MlflowWarned(f)]]
        /\ result' = [result EXCEPT ![r] = MlflowResponse(@, f)]
    /\ pc' = [pc EXCEPT ![r] = "done"]
    /\ UNCHANGED <<config, pure, token_cache, now, req, model_id, attempt,
                   tnow, newtok, token, calls, exchanges>>

\* ----------------------------------------------------------- embeddings
\* the embedding model (default of WATSONX_EMBEDDING_MODEL_ID)
EMBED_MODEL_ID == "ibm/slate-125m-english-rtrvr"

\* EmbeddingsResponse(embeddings, raw): raw is the data of the n-th call
EmbeddingsResponse(n) ==
    [kind |-> "ok", status |-> 200, detail |-> "", raw |-> n,
     mlflow_run_id |-> None]

\* A variant that asks for the token before it looks at the project id.
EmbeddingsStartTokenFirst(r) ==
    /\ pc[r] \in {"idle", "done"}
    /\ req' = [req EXCEPT ![r] = [kind |-> "embeddings", model_id |-> None]]
    /\ model_id' = [model_id EXCEPT ![r] = EMBED_MODEL_ID]
    /\ attempt' = [attempt EXCEPT ![r] = 1]
    /\ calls' = [calls EXCEPT ![r] = <<>>]
    /\ exchanges' = [exchanges EXCEPT ![r] = 0]
    /\ mlflow' = [mlflow EXCEPT ![r] = NoMlflow]
    /\ result' = [result EXCEPT ![r] = NoResult]
    /\ pc' = [pc EXCEPT ![r] = "iam_check"]
    /\ UNCHANGED <<config, pure, token_cache, now, tnow, newtok, token>>

\* lines 351-354: a request arrives; the project id is checked, then the
\* token is asked for.
EmbeddingsStart(r) ==
    /\ pc[r] \in {"idle", "done"}
    /\ req' = [req EXCEPT ![r] = [kind |-> "embeddings", model_id |-> None]]
    /\ model_id' = [model_id EXCEPT ![r] = EMBED_MODEL_ID]
    /\ attempt' = [attempt EXCEPT ![r] = 1]
    /\ calls' = [calls EXCEPT ![r] = <<>>]
    /\ exchanges' = [exchanges EXCEPT ![r] = 0]
    /\ mlflow' = [mlflow EXCEPT ![r] = NoMlflow]
    /\ IF PROJECT_ID = ""
       THEN /\ result' = [result EXCEPT ![r] =
                            HTTPException(500, "Missing WATSONX_PROJECT_ID")]
            /\ pc' = [pc EXCEPT ![r] = "done"]
       ELSE /\ result' = [result EXCEPT ![r] = NoResult]
            /\ pc' = [pc EXCEPT ![r] = "iam_check"]
    /\ UNCHANGED <<config, pure, token_cache, now, tnow, newtok, token>>

\* line 379: status_code = e.response.status_code if e.response else 502
EmbedErrStatus(resp) == IF ResponseBool(resp) THEN resp.status ELSE 502

\* line 378: detail = e.response.text if e.response is not None else str(e);
\* the HTTPError of raise_for_status() always carries its response
EmbedErrDetail(resp) == resp.text

\* lines 370-381: the embeddings POST and what the handler does with its
\* outcome; every path returns or raises, none sends the call again.
EmbedPost(r) ==
    /\ pc[r] = "wx_post"
    /\ req[r].kind = "embeddings"
    /\ Len(calls[r]) < MaxCalls
    /\ \E out \in WxOutcomes :
        LET n == Len(calls[r]) + 1 IN
        /\ calls' = [calls EXCEPT ![r] =
                       Append(@, [model_id |-> model_id[r],
                                  url |-> "embeddings",
                                  out |-> out])]
        /\ token' = [token EXCEPT ![r] = NoToken]
        /\ pc' = [pc EXCEPT ![r] = "done"]
        /\ result' = [result EXCEPT ![r] =
             CASE out.kind = "ok" -> EmbeddingsResponse(n)
               [] out.kind = "HTTPError" ->
                    HTTPException(EmbedErrStatus(out), EmbedErrDetail(out))
               [] OTHER -> HTTPException(502, "watsonx embeddings error")]
    /\ UNCHANGED <<config, pure, mlflow, token_cache, now, req, model_id,
                   attempt, tnow, newtok, exchanges>>

\* ------------------------------------- the service with both endpoints
\* The slot the pool of SpecAll runs.
OneWorker == {1}

\* Every configuration of the settings the handlers read; requests are
\* served one at a time.
InitAll ==
    /\ IBM_API_KEY \in {"", "apikey"}
    /\ WATSONX_USE_CHAT \in BOOLEAN
    /\ PROJECT_ID \in {"", "project"}
    /\ MLFLOW_AUTO_LOG \in BOOLEAN
    /\ MLFLOW_TRACKING_URI \in {"", "http://mlflow:5000"}
    /\ Workers = OneWorker
    /\ p_in = NoInput
    /\ p_out = NoOutput
    /\ InitState

NextAll ==
    \/ Next
    \/ \E r \in Workers :
        \/ EmbeddingsStart(r)
        \/ EmbedPost(r)
        \/ MlflowLog(r)

SpecAll == InitAll /\ [][NextAll]_vars

\* ---------------------------------------- request validation and payloads
\* Strings of a request body are sequences of characters; Join turns one
\* into the string the rest of the model compares model ids with.
RECURSIVE Join(_)
Join(s) == IF s = <<>> THEN "" ELSE Head(s) \o Join(Tail(s))

\* the characters str.strip() removes that occur in the inputs
Whitespace == {" ", "\t", "\n"}

RECURSIVE LStrip(_)
LStrip(s) ==
    IF s # <<>> /\ Head(s) \in Whitespace THEN LStrip(Tail(s)) ELSE s

RECURSIVE RStrip(_)
RStrip(s) ==
    IF s # <<>> /\ s[Len(s)] \in Whitespace
    THEN RStrip(SubSeq(s, 1, Len(s) - 1)) ELSE s

\* str.strip()
Strip(s) == RStrip(LStrip(s))

UpperCase == <<"A", "B", "C", "D", "E", "F", "G", "H", "I", "J", "K", "L", "M",
               "N", "O", "P", "Q", "R", "S", "T", "U", "V", "W", "X", "Y", "Z">>
LowerCase == <<"a", "b", "c", "d", "e", "f", "g", "h", "i", "j", "k", "l", "m",
               "n", "o", "p", "q", "r", "s", "t", "u", "v", "w", "x", "y", "z">>

LowerChar(c) ==
    IF \E i \in DOMAIN UpperCase : UpperCase[i] = c
    THEN LowerCase[CHOOSE i \in DOMAIN UpperCase : UpperCase[i] = c]
    ELSE c

\* str.lower()
Lower(s) == [i \in 1..Len(s) |-> LowerChar(s[i])]

\* line 82: {"", "string", "none", "null"}
Placeholders == {<<>>, <<"s", "t", "r", "i", "n", "g">>, <<"n", "o", "n", "e">>, <<"n", "u", "l", "l">>}

\* A variant that returns the lower-cased string.
normalize_model_id_lowered(v) ==
    IF v.type # "str" THEN None
    ELSE LET s == Strip(v.chars) IN
         IF Lower(s) \in Placeholders THEN None ELSE Join(Lower(s))

\* lines 75-85: GenerateRequest.normalize_model_id
normalize_model_id(v) ==
    IF v.type = "null" THEN None
    ELSE IF v.type = "str"
         THEN LET s == Strip(v.chars) IN
              IF Lower(s) \in Placeholders THEN None ELSE Join(s)
         ELSE None

\* lines 64-73: GenerateRequest.coerce_top_k
coerce_top_k(v) == IF v = <<>> THEN <<>> ELSE IF v[1] >= 1 THEN v ELSE <<>>

\* lines 54-85: the request after validation; the fields no input varies
\* have their defaults (temperatures and penalties in thousandths).
GenerateRequest(body) ==
    [prompt |-> "prompt",
     max_new_tokens |-> 256,
     temperature |-> body.temperature,
     top_p |-> 900,
     top_k |-> coerce_top_k(body.top_k),
     repetition_penalty |-> <<1100>>,
     stop_sequences |-> <<>>,
     model_id |-> normalize_model_id(body.model_id)]

\* A variant that takes every temperature below 1 as zero.
DecodingMethodBelowOne(temperature) ==
    IF temperature < 1000 THEN "greedy" ELSE "sample"

\* line 227: "greedy" if req.temperature == 0 else "sample"
DecodingMethod(temperature) == IF temperature = 0 THEN "greedy" ELSE "sample"

\* lines 226-238: the parameters mapping; the optional keys are present
\* only under their conditions.
Parameters(r) ==
    LET keys == {"decoding_method", "max_new_tokens", "temperature", "top_p"}
                \cup (IF r.top_k # <<>> /\ r.top_k[1] >= 1
                      THEN {"top_k"} ELSE {})
                \cup (IF r.repetition_penalty # <<>>
                      THEN {"repetition_penalty"} ELSE {})
                \cup (IF r.stop_sequences # <<>>
                      THEN {"stop_sequences"} ELSE {})
    IN [k \in keys |->
          CASE k = "decoding_method" -> DecodingMethod(r.temperature)
            [] k = "max_new_tokens" -> r.max_new_tokens
            [] k = "temperature" -> r.temperature
            [] k = "top_p" -> r.top_p
            [] k = "top_k" -> r.top_k[1]
            [] k = "repetition_penalty" -> r.repetition_penalty[1]
            [] OTHER -> r.stop_sequences]

\* line 240: model_id = req.model_id or LLM_MODEL_ID
ModelIdOrDefault(m) == IF m # None /\ m # "" THEN m ELSE LLM_MODEL_ID

\* lines 127-145: the POST of _wx_chat_call
WxChatCall(messages, m, params) ==
    [url |-> "chat",
     body |-> [messages |-> [i \in DOMAIN messages |->
                               [role |-> messages[i].role,
                                content |-> <<[type |-> "text",
                                               text |-> messages[i].content]>>]],
               model_id |-> m,
               project_id |-> PROJECT_ID,
               parameters |-> params]]

\* lines 151-159: the POST of _wx_generate_call
WxGenerateCall(prompt, m, params) ==
    [url |-> "generation",
     body |-> [input |-> prompt,
               model_id |-> m,
               project_id |-> PROJECT_ID,
               parameters |-> params]]

\* The user prompt of a call: the text of the chat message, or the input.
PromptOf(call) ==
    IF call.url = "chat" THEN call.body.messages[1].content[1].text
    ELSE call.body.input

\* lines 243-250: the call of the primary attempt
PrimaryCall(r, m, params) ==
    IF WATSONX_USE_CHAT
    THEN WxChatCall(<<[role |-> "user", content |-> r.prompt]>>, m, params)
    ELSE WxGenerateCall(r.prompt, m, params)

\* A variant whose fallback always uses the completion protocol
\* (_wx_generate_call is commented "used as fallback").
FallbackCallLegacy(r, params) == WxGenerateCall(r.prompt, LLM_MODEL_ID, params)

\* lines 262-263: the call of the fallback attempt
FallbackCall(r, params) ==
    IF ~WATSONX_USE_CHAT
    THEN WxGenerateCall(r.prompt, LLM_MODEL_ID, params)
    ELSE WxChatCall(<<[role |-> "user", content |-> r.prompt]>>,
                    LLM_MODEL_ID, params)

\* The request bodies the functions are applied to.
Pads == {<<>>, <<" ">>, <<"\t">>}
CoreStrings == {<<>>,
                <<"s", "t", "r", "i", "n", "g">>,
                <<"S", "t", "r", "i", "n", "g">>,
                <<"n", "o", "n", "e">>,
                <<"N", "o", "n", "e">>,
                <<"N", "U", "L", "L">>,
                <<"n", "u", "l", "l">>,
                <<"n", "u", "l", "l", "s">>,
                <<"b", "a", "d", "-", "m", "o", "d", "e", "l">>,
                <<"B", "a", "d", "-", "M", "o", "d", "e", "l">>,
                <<"a", " ", "b">>,
                <<"m", "i", "s", "t", "r", "a", "l", "a", "i", "/", "m", "i", "s", "t", "r", "a", "l", "-", "l", "a", "r", "g", "e">>}
RawModelIds ==
    {[type |-> "null", chars |-> <<>>], [type |-> "int", chars |-> <<>>]}
    \cup {[type |-> "str", chars |-> l \o c \o t] :
            l \in {<<>>, <<" ">>}, c \in CoreStrings, t \in Pads}
Temperatures == {0, 1, 700}
TopKs == {<<>>, <<0>>, <<5>>}

\* pydantic validates the body into the GenerateRequest (54-85).
PureValidate ==
    /\ p_out.stage = "none"
    /\ p_out' = [stage |-> "validated", req |-> GenerateRequest(p_in)]
    /\ UNCHANGED <<config, p_in, mlflow, token_cache, now, pc, req, model_id,
                   attempt, tnow, newtok, token, calls, exchanges, result>>

\* generate computes parameters and model_id (226-240) and the calls of
\* its two attempts (243-250, 262-263).
PureGenerate ==
    /\ p_out.stage = "validated"
    /\ LET r == p_out.req
           parameters == Parameters(r)
           m == ModelIdOrDefault(r.model_id)
       IN p_out' = [stage |-> "built",
                    req |-> r,
                    model_id |-> m,
                    primary |-> PrimaryCall(r, m, parameters),
                    fallback |-> FallbackCall(r, parameters)]
    /\ UNCHANGED <<config, p_in, mlflow, token_cache, now, pc, req, model_id,
                   attempt, tnow, newtok, token, calls, exchanges, result>>

\* Every request body of the input sets, under both protocols; no request
\* is served.
InitPure ==
    /\ IBM_API_KEY = "apikey"
    /\ WATSONX_USE_CHAT \in BOOLEAN
    /\ PROJECT_ID = "project"
    /\ MLFLOW_AUTO_LOG = FALSE
    /\ MLFLOW_TRACKING_URI = ""
    /\ Workers = {}
    /\ p_in \in [model_id : RawModelIds, temperature : Temperatures,
                 top_k : TopKs]
    /\ p_out = NoOutput
    /\ InitState

NextPure == PureValidate \/ PureGenerate

SpecPure == InitPure /\ [][NextPure]_vars

\* ================================================================ claims
Done(r) == pc[r] = "done"

\* The first upstream call of r was rejected the way the retry is meant
\* for: 400 or 404, the marker in the answer's body, and a model_id of the
\* request that is set and is not the default model.
RejectedAsUnsupported(r) ==
    /\ Len(calls[r]) >= 1
    /\ calls[r][1].out.kind = "HTTPError"
    /\ calls[r][1].out.status \in {400, 404}
    /\ calls[r][1].out.text = MarkerBody
    /\ req[r].model_id \notin {None, LLM_MODEL_ID}

\* The request ended on a failure to obtain a token.
CredentialError(r) ==
    /\ result[r].kind = "error"
    /\ result[r].detail \in {"Missing IBMCLOUD_API_KEY", "IAM token error"}

\* C1: a request whose first upstream call is rejected with 400/404 and
\* model_not_supported, for a model_id that is set and not the default,
\* makes exactly one further upstream call, with the default model, and a
\* success of that call is what the caller receives.
C1_RetryWithDefault ==
    \A r \in Reqs :
        (Done(r) /\ RejectedAsUnsupported(r) /\ ~CredentialError(r)) =>
            /\ Len(calls[r]) = 2
            /\ calls[r][2].model_id = LLM_MODEL_ID
            /\ (calls[r][2].out.kind = "ok" => result[r] = GenerateResponse(2))

\* C2: when the first upstream call fails with an HTTP error outside the
\* retry condition, the caller receives the upstream status code and the
\* upstream body unchanged.
C2_UpstreamErrorUnchanged ==
    \A r \in Reqs :
        (/\ Done(r)
         /\ Len(calls[r]) = 1
         /\ calls[r][1].out.kind = "HTTPError"
         /\ ~RejectedAsUnsupported(r)) =>
            result[r] = HTTPException(calls[r][1].out.status,
                                      calls[r][1].out.text)

\* C3: a second upstream call is made only if the first call failed with
\* HTTP 400 or 404, the body held model_not_supported, and the request's
\* model_id is set and differs from the default; every other first failure
\* is terminal.
C3_RetryOnlyIfUnsupported ==
    \A r \in Reqs :
        /\ (Len(calls[r]) >= 2 \/ attempt[r] = 2) => RejectedAsUnsupported(r)
        /\ (Done(r) /\ Len(calls[r]) >= 1 /\ ~RejectedAsUnsupported(r)) =>
               Len(calls[r]) = 1

\* A request for an overridden model ended on a first failure that is not
\* the retryable one, after one call.
C3_Witness ==
    \E r \in Reqs :
        /\ Done(r)
        /\ req[r].model_id = BadModel
        /\ Len(calls[r]) = 1
        /\ calls[r][1].out.kind # "ok"
        /\ ~RejectedAsUnsupported(r)

\* C4: no request issues more than two upstream generation calls, and a
\* request ends once a second call has been answered.
C4_AtMostTwoCalls ==
    \A r \in Reqs :
        /\ Len(calls[r]) <= 2
        /\ Len(calls[r]) = 2 => Done(r)

\* A request whose first call met the rejection the retry is meant for
\* has ended.
C4_Witness ==
    \E r \in Reqs : Done(r) /\ RejectedAsUnsupported(r) /\ ~CredentialError(r)

\* How the failure of an upstream call is to reach the caller: an HTTP
\* error with its own status and body, a transport failure as 502.
Surfaced(out) ==
    IF out.kind = "HTTPError"
    THEN HTTPException(out.status, out.text)
    ELSE HTTPException(502, "watsonx request error")

\* C5: a request that went to the fallback attempt and failed there ends
\* on the failure of that second call: an upstream HTTP error reaches the
\* caller with its status and body unchanged, a transport error as 502.
C5_FallbackFailureSurfaced ==
    \A r \in Reqs :
        (/\ Done(r)
         /\ RejectedAsUnsupported(r)
         /\ ~CredentialError(r)
         /\ result[r].kind = "error") =>
            /\ Len(calls[r]) = 2
            /\ result[r] = Surfaced(calls[r][2].out)

\* C6: a generate request performs at most one credential-exchange call
\* from its start to its response, whatever the cache held and whatever
\* expires_in the identity provider answers.
C6_OneExchangePerRequest == \A r \in Reqs : exchanges[r] <= 1

\* A request that exchanged a short-lived token (stale as soon as it is
\* stored) and made its upstream call has ended.
C6_Witness ==
    \E r \in Reqs :
        /\ Done(r)
        /\ exchanges[r] = 1
        /\ Len(calls[r]) = 1
        /\ token_cache.token.ttl < Margin
        /\ token_cache.token # NoToken

\* The step r takes out of position p.
Leaves(r, p) == pc[r] = p /\ pc'[r] # p

\* Positions between the cache check that failed and the return of the
\* exchanged token.
RefreshPcs == {"iam_post", "iam_store_token", "iam_store_exp"}

\* C7: with a non-empty API key and a cached token whose stored expiry is
\* more than 60 seconds after the time of the check, _get_iam_token takes
\* the cached path, returns the token the cache holds, sends no exchange
\* and leaves token and expiry of the cache as they are.
C7_CachedTokenServed ==
    [][\A r \in Reqs :
        /\ (/\ Leaves(r, "iam_check")
            /\ IBM_API_KEY # ""
            /\ token_cache.token # NoToken
            /\ token_cache.exp > now + 60) =>
                /\ pc'[r] = "iam_cached"
                /\ token_cache' = token_cache
                /\ exchanges'[r] = exchanges[r]
        /\ Leaves(r, "iam_cached") =>
                /\ pc'[r] = "wx_post"
                /\ token'[r] = token_cache.token
                /\ token_cache' = token_cache
                /\ exchanges'[r] = exchanges[r]]_vars

\* A request holds a token it was served from the cache, without an
\* exchange of its own.
C7_Witness ==
    \E r \in Reqs :
        /\ pc[r] = "wx_post"
        /\ exchanges[r] = 0
        /\ token[r] # NoToken
        /\ token[r] = token_cache.token

\* C8 as stated (for a non-empty API key): with no cached token, or a
\* stored expiry within 60 seconds of the time of the check,
\* _get_iam_token sends an exchange call and goes on to update the cache.
C8_RefreshAlwaysStores ==
    [][\A r \in Reqs :
        /\ (/\ Leaves(r, "iam_check")
            /\ IBM_API_KEY # ""
            /\ (token_cache.token = NoToken \/ token_cache.exp <= now + 60)) =>
                pc'[r] = "iam_post"
        /\ Leaves(r, "iam_post") =>
                /\ exchanges'[r] = exchanges[r] + 1
                /\ pc'[r] = "iam_store_token"]_vars

\* C8 amended: with a non-empty API key and no cached token, or a stored
\* expiry within 60 seconds of the time of the check, _get_iam_token sends
\* exactly one exchange call.  When that call succeeds the answered access
\* token is stored as the cache's token and the time of the check plus
\* expires_in as its expiry, and that token is returned; when it fails the
\* call ends without a write to the cache.
C8_RefreshStoresToken ==
    [][\A r \in Reqs :
        /\ (/\ Leaves(r, "iam_check")
            /\ IBM_API_KEY # ""
            /\ (token_cache.token = NoToken \/ token_cache.exp <= now + 60)) =>
                /\ pc'[r] = "iam_post"
                /\ tnow'[r] = now
                /\ exchanges'[r] = exchanges[r]
                /\ token_cache' = token_cache
        /\ Leaves(r, "iam_post") =>
                /\ exchanges'[r] = exchanges[r] + 1
                /\ pc'[r] \in {"iam_store_token", "done"}
                /\ token_cache' = token_cache
                /\ pc'[r] = "iam_store_token" =>
                       /\ newtok'[r].iat = tnow[r]
                       /\ newtok'[r].ttl \in ExpiresIn
        /\ Leaves(r, "iam_store_token") =>
                /\ pc'[r] = "iam_store_exp"
                /\ token_cache'.token = newtok[r]
                /\ exchanges'[r] = exchanges[r]
        /\ Leaves(r, "iam_store_exp") =>
                /\ pc'[r] = "wx_post"
                /\ token_cache'.exp = tnow[r] + newtok[r].ttl
                /\ token_cache'.token = token_cache.token
                /\ token'[r] = newtok[r]
                /\ exchanges'[r] = exchanges[r]]_vars

\* A request found the cache's expiry within 60 seconds of its check,
\* exchanged once and has stored the new token; the expiry it found is
\* still in the cache, about to be replaced.
C8_Witness ==
    \E r \in Reqs :
        /\ pc[r] = "iam_store_exp"
        /\ exchanges[r] = 1
        /\ token_cache.token = newtok[r]
        /\ token_cache.exp > tnow[r]
        /\ token_cache.exp <= tnow[r] + Margin
        /\ \A o \in Reqs \ {r} : pc[o] \notin RefreshPcs

\* C9 as stated: on the cached path and on the freshly issued path alike,
\* the token returned has an expiry at least 60 seconds after the time of
\* the check.
C9_ReturnedTokenHasMargin ==
    [][\A r \in Reqs :
        /\ (pc[r] = "iam_check" /\ pc'[r] = "iam_cached") =>
                token_cache.exp >= now + 60
        /\ Leaves(r, "iam_store_exp") =>
                token_cache'.exp >= tnow[r] + 60]_vars

\* C9 amended: a token is served from the cache only if the cache holds
\* one and its stored expiry is more than 60 seconds after the time of the
\* check; otherwise a new one is requested.  A freshly issued token is
\* returned whatever its expires_in.
C9_CachedTokenHasMargin ==
    [][\A r \in Reqs :
        /\ (pc[r] = "iam_check" /\ pc'[r] = "iam_cached") =>
                /\ token_cache.token # NoToken
                /\ token_cache.exp > now + 60
        /\ (pc[r] = "iam_check" /\ pc'[r] \notin {"iam_check", "iam_cached"}) =>
                \/ pc'[r] = "iam_post"
                \/ IBM_API_KEY = ""
        /\ Leaves(r, "iam_store_exp") => token'[r].ttl \in ExpiresIn]_vars

\* A request was served, from the cache, a token issued at an earlier
\* time.
C9_Witness ==
    \E r \in Reqs :
        /\ pc[r] = "wx_post"
        /\ exchanges[r] = 0
        /\ token[r] # NoToken
        /\ token[r].iat < now

\* C10: the refresh path has no mutual exclusion: a request that found the
\* cache stale sends its exchange and writes the cache whatever the other
\* requests in flight are doing.
C10_RefreshNotExclusive ==
    \A r \in Reqs :
        /\ pc[r] = "iam_post" => ENABLED IamPost(r)
        /\ pc[r] = "iam_store_token" => ENABLED IamStoreToken(r)
        /\ pc[r] = "iam_store_exp" => ENABLED IamStoreExp(r)

\* Two requests checked the cache at the same instant, each exchanged, the
\* first stored a token that outlives the margin, and the second has
\* overwritten it with its own.
C10_Witness ==
    \E r1, r2 \in Reqs :
        /\ r1 # r2
        /\ pc[r1] = "wx_post" /\ exchanges[r1] = 1
        /\ pc[r2] = "iam_store_exp" /\ exchanges[r2] = 1
        /\ token[r1].iat = now /\ newtok[r2].iat = now
        /\ token[r1].ttl > Margin
        /\ token[r1] # newtok[r2]
        /\ token_cache.token = newtok[r2]

\* C11: a failed credential exchange ends _get_iam_token with the gateway
\* error 502 "IAM token error", leaves the cache entry and every other
\* request as they were, and records nothing: a request whose cache check
\* finds no valid token goes on to the exchange call, whatever failed
\* before it.
C11_FailedExchangeLeavesCache ==
    [][\A r \in Reqs :
        /\ (Leaves(r, "iam_post") /\ pc'[r] # "iam_store_token") =>
              /\ pc'[r] = "done"
              /\ result'[r] = HTTPException(502, "IAM token error")
              /\ token_cache' = token_cache
              /\ \A o \in Reqs \ {r} :
                    /\ pc'[o] = pc[o]
                    /\ result'[o] = result[o]
                    /\ token'[o] = token[o]
        /\ (Leaves(r, "iam_check") /\ IBM_API_KEY # ""
              /\ ~(token_cache.token # NoToken /\ token_cache.exp > now + 60)) =>
              pc'[r] = "iam_post"
      ]_vars

\* A request has ended on a failed exchange while a token stored earlier
\* is still in the cache, and another request is at its own exchange.
C11_Witness ==
    \E r, o \in Reqs :
        /\ Done(r)
        /\ result[r] = HTTPException(502, "IAM token error")
        /\ exchanges[r] = 1
        /\ token_cache.token # NoToken
        /\ pc[o] = "iam_post"

\* What the handler of r has produced and sent so far.
RequestState(r) == <<pc[r], req[r], result[r], calls[r], exchanges[r], token[r]>>

\* C12: an embeddings request served without a configured project id ends
\* with the configuration error 500 "Missing WATSONX_PROJECT_ID" before
\* any network call: no credential exchange, no upstream embedding call,
\* and the token cache as it was.
C12_NoProjectNoNetwork ==
    [][\A r \in Reqs :
        (PROJECT_ID = "" /\ req'[r].kind = "embeddings") =>
            /\ pc'[r] = "done"
            /\ result'[r] = HTTPException(500, "Missing WATSONX_PROJECT_ID")
            /\ exchanges'[r] = 0
            /\ calls'[r] = <<>>
            /\ token_cache' = token_cache
      ]_vars

\* An embeddings request has been refused for the missing project id
\* while the api key is set and the cache holds the token an earlier
\* generate request stored.
C12_Witness ==
    \E r \in Reqs :
        /\ PROJECT_ID = ""
        /\ IBM_API_KEY # ""
        /\ req[r].kind = "embeddings"
        /\ Done(r)
        /\ result[r] = HTTPException(500, "Missing WATSONX_PROJECT_ID")
        /\ token_cache.token # NoToken

\* C13: an embeddings request sends at most one upstream call; when the
\* upstream answers with an HTTP error the caller receives the upstream's
\* status code with the upstream's body as detail, and on a transport
\* failure a 502.
C13_EmbeddingsErrorPassedOn ==
    \A r \in Reqs :
        (req[r].kind = "embeddings" /\ Len(calls[r]) >= 1) =>
            /\ Len(calls[r]) = 1
            /\ Done(r)
            /\ calls[r][1].out.kind = "HTTPError" =>
                  result[r] = HTTPException(calls[r][1].out.status,
                                            calls[r][1].out.text)
            /\ calls[r][1].out.kind = "ConnectionError" =>
                  /\ result[r].kind = "error"
                  /\ result[r].status = 502

\* The response of r is the one generate returns when the MLflow block is
\* switched off: the text and raw data of its one upstream call.
SameAsWithoutMlflow(r) ==
    /\ result[r].kind = "ok"
    /\ [result[r] EXCEPT !.mlflow_run_id = None] = GenerateResponse(Len(calls[r]))

\* C14 as stated: when an operation of the MLflow block fails after a
\* successful generation, the failure is swallowed and logged, and the
\* caller receives the success response with the generated_text and raw
\* it would have had with the block switched off.
C14_TelemetryFailureLogged ==
    \A r \in Reqs :
        (Done(r) /\ mlflow[r].failed # None) =>
            /\ SameAsWithoutMlflow(r)
            /\ mlflow[r].warned

\* C14 amended: the failure never reaches the caller, who receives the
\* success response with the generated_text and raw it would have had
\* with the block switched off; a warning is logged when the setup or a
\* logging operation fails, and nothing is logged when the system-metrics
\* switch, the dataset logging or end_run fails.
C14_TelemetryFailureSwallowed ==
    \A r \in Reqs :
        (Done(r) /\ mlflow[r].failed # None) =>
            /\ SameAsWithoutMlflow(r)
            /\ mlflow[r].warned <=> mlflow[r].failed \in {"setup", "log"}
            /\ mlflow[r].failed \in {"setup", "log"} =>
                  result[r].mlflow_run_id = None

\* A request has been answered after a logging operation of the block
\* failed with the run open.
C14_Witness ==
    \E r \in Reqs :
        /\ Done(r)
        /\ MlflowEnabled
        /\ mlflow[r].failed = "log"
        /\ mlflow[r].warned
        /\ result[r] = GenerateResponse(1)

\* C15: with MLflow logging switched on (the flag set and a tracking URI
\* configured), every generate request that ends in a successful
\* generation has entered the MLflow block before its response is
\* returned, whichever attempt the success came from.
C15_SuccessNotifiesSink ==
    \A r \in Reqs :
        (MlflowEnabled /\ req[r].kind = "generate" /\ result[r].kind = "ok") =>
            /\ Done(r) => mlflow[r].entered
            /\ ~Done(r) => pc[r] = "mlflow"

\* A generate request has been answered with the run id of the run the
\* block logged.
C15_Witness ==
    \E r \in Reqs :
        /\ MlflowEnabled
        /\ req[r].kind = "generate"
        /\ Done(r)
        /\ mlflow[r] = [entered |-> TRUE, failed |-> None, warned |-> FALSE]
        /\ result[r].kind = "ok"
        /\ result[r].mlflow_run_id = "run_id"

\* The body handed to the pure functions carries a string as model_id.
StrModelId == p_out.stage # "none" /\ p_in.model_id.type = "str"

\* C16 as stated: a model_id that after trimming and ignoring case is one
\* of "", "string", "none", "null" is normalized to unset; any other
\* string is kept verbatim, as the model_id of the request (the one
\* compared with the default) and of the upstream call.
C16_ModelIdVerbatim ==
    StrModelId =>
        LET raw == p_in.model_id.chars IN
        IF Lower(Strip(raw)) \in Placeholders
        THEN p_out.req.model_id = None
        ELSE /\ p_out.req.model_id = Join(raw)
             /\ p_out.stage = "built" =>
                   p_out.primary.body.model_id = Join(raw)

\* C16 amended: any other string is kept with its surrounding whitespace
\* trimmed and nothing else changed (case and inner whitespace stay).
C16_ModelIdTrimmed ==
    StrModelId =>
        LET raw == p_in.model_id.chars IN
        IF Lower(Strip(raw)) \in Placeholders
        THEN /\ p_out.req.model_id = None
             /\ p_out.stage = "built" =>
                   p_out.primary.body.model_id = LLM_MODEL_ID
        ELSE /\ p_out.req.model_id = Join(Strip(raw))
             /\ p_out.stage = "built" =>
                   p_out.primary.body.model_id = Join(Strip(raw))

\* A padded model_id in mixed case has reached the upstream call trimmed.
C16_Witness ==
    /\ p_out.stage = "built"
    /\ Join(p_in.model_id.chars) = " Bad-Model\t"
    /\ p_out.req.model_id = "Bad-Model"
    /\ p_out.primary.body.model_id = "Bad-Model"

\* C17: decoding_method is "greedy" when the temperature is exactly 0 and
\* "sample" otherwise, in the parameters of the primary call and of the
\* fallback call alike.
C17_DecodingMethod ==
    p_out.stage = "built" =>
        LET expected == IF p_in.temperature = 0 THEN "greedy" ELSE "sample" IN
        /\ p_out.primary.body.parameters["decoding_method"] = expected
        /\ p_out.fallback.body.parameters["decoding_method"] = expected

\* The calls of a request with the smallest temperature above 0 sample.
C17_Witness ==
    /\ p_out.stage = "built"
    /\ p_in.temperature = 1
    /\ p_out.primary.body.parameters["decoding_method"] = "sample"
    /\ p_out.fallback.body.parameters["decoding_method"] = "sample"

\* C20: the call of the fallback attempt uses the protocol of the primary
\* call (chat or completion) and carries the same prompt and the same
\* parameters; only model_id differs, which is the configured default.
C20_FallbackSameButModel ==
    p_out.stage = "built" =>
        /\ p_out.fallback.url = p_out.primary.url
        /\ (p_out.fallback.url = "chat") <=> WATSONX_USE_CHAT
        /\ PromptOf(p_out.fallback) = PromptOf(p_out.primary)
        /\ p_out.fallback.body.parameters = p_out.primary.body.parameters
        /\ p_out.fallback.body.model_id = LLM_MODEL_ID
        /\ [p_out.fallback.body EXCEPT !.model_id = p_out.primary.body.model_id]
              = p_out.primary.body

\* Under the chat protocol, the calls of a request for another model with
\* top_k set have been built.
C20_Witness ==
    /\ p_out.stage = "built"
    /\ WATSONX_USE_CHAT
    /\ p_out.primary.url = "chat"
    /\ p_out.primary.body.model_id = "bad-model"
    /\ p_out.fallback.body.model_id = LLM_MODEL_ID
    /\ "top_k" \in DOMAIN p_out.fallback.body.parameters

\* C18: once the concurrent calls of _get_iam_token have made their writes
\* (no call stands between its write of the token and its write of the
\* expiry), the expiry in the cache is the one of the exchange that
\* issued the cached token, so no cached token is judged valid on the
\* expiry of another exchange.
C18_ExpiryBelongsToToken ==
    (\A r \in Reqs : pc[r] # "iam_store_exp") =>
        (token_cache.token # NoToken =>
            token_cache.exp = token_cache.token.iat + token_cache.token.ttl)

\* C19: when a generate request fails to obtain a token (empty api key, or
\* a failed exchange), on either attempt, the upstream call of that
\* attempt is not sent, the failure starts no retry, and the request ends
\* with the credential error.
C19_TokenFailureEndsRequest ==
    [][\A r \in Reqs :
        /\ (req[r].kind = "generate" /\ Leaves(r, "iam_check")
              /\ IBM_API_KEY = "") =>
              /\ pc'[r] = "done"
              /\ result'[r] = HTTPException(500, "Missing IBMCLOUD_API_KEY")
              /\ calls'[r] = calls[r]
              /\ attempt'[r] = attempt[r]
              /\ Len(calls[r]) = attempt[r] - 1
        /\ (req[r].kind = "generate" /\ Leaves(r, "iam_post")
              /\ pc'[r] # "iam_store_token") =>
              /\ pc'[r] = "done"
              /\ result'[r] = HTTPException(502, "IAM token error")
              /\ calls'[r] = calls[r]
              /\ attempt'[r] = attempt[r]
              /\ Len(calls[r]) = attempt[r] - 1
        /\ (Done(r) /\ CredentialError(r)) =>
              (pc'[r] = "done" => result'[r] = result[r])
      ]_vars

\* A generate request has ended on the missing api key: no exchange, no
\* upstream call, one attempt.
C19_Witness ==
    \E r \in Reqs :
        /\ IBM_API_KEY = ""
        /\ req[r].kind = "generate"
        /\ Done(r)
        /\ result[r] = HTTPException(500, "Missing IBMCLOUD_API_KEY")
        /\ calls[r] = <<>>
        /\ exchanges[r] = 0
        /\ attempt[r] = 1
====
